---- MODULE Spec2Model ----
(***************************************************************************)
(* Model of the heekkr JSON resolver: the Resolver servicer of             *)
(* app/__init__.py (GetLibraries, Search, convert_library) together with   *)
(* the adapter of app/services/seoul_seocho.py.                            *)
(*                                                                         *)
(* Strings that the code takes apart (library ids, namespaces, manage      *)
(* codes) are sequences of one-character strings; strings the code only    *)
(* copies (names, search terms) are TLA+ strings.                          *)
(***************************************************************************)
EXTENDS Integers, Sequences, FiniteSets, TLC

\* Bounds of the model.
MaxLibs == 2
MaxItems == 2
MaxIds == 2
MaxStrLen == 2
MaxRequests == 1

----------------------------------------------------------------------------
(* Strings *)

SEP == ":"

Min(S) == CHOOSE i \in S : \A j \in S : i <= j

Range(f) == {f[i] : i \in DOMAIN f}

\* str.startswith(p)
startswith(s, p) == Len(s) >= Len(p) /\ SubSeq(s, 1, Len(p)) = p

\* str.removeprefix(p): the prefix is removed only when it is there
removeprefix(s, p) ==
    IF startswith(s, p) THEN SubSeq(s, Len(p) + 1, Len(s)) ELSE s

\* a slip that splits once, at the last separator (rsplit)
split_at_last(s) ==
    LET idx == {i \in 1..Len(s) : s[i] = SEP}
        last == CHOOSE i \in idx : \A j \in idx : j <= i
    IN  IF idx = {} THEN <<s>>
        ELSE <<SubSeq(s, 1, last - 1), SubSeq(s, last + 1, Len(s))>>

\* str.split(":"): the pieces between the separators, the whole string as
\* the only piece when there is no separator
RECURSIVE split(_)
split(s) ==
    LET idx == {i \in 1..Len(s) : s[i] = SEP}
    IN  IF idx = {} THEN <<s>>
        ELSE <<SubSeq(s, 1, Min(idx) - 1)>>
                 \o split(SubSeq(s, Min(idx) + 1, Len(s)))

\* str.split(sep) for the other separator of the code, "."
RECURSIVE split_by(_, _)
split_by(s, sep) ==
    LET idx == {i \in 1..Len(s) : s[i] = sep}
    IN  IF idx = {} THEN <<s>>
        ELSE <<SubSeq(s, 1, Min(idx) - 1)>>
                 \o split_by(SubSeq(s, Min(idx) + 1, Len(s)), sep)

\* The whitespace int() ignores at both ends of its argument: the six ASCII
\* characters (the vertical tab written as its code point) and the Unicode
\* spaces, each written as its code point.
WhiteSpace ==
    {" ", "\t", "\n", "U+000B", "\f", "\r",
     "U+0085", "U+00A0", "U+1680", "U+2000", "U+2001", "U+2002",
     "U+2003", "U+2004", "U+2005", "U+2006", "U+2007", "U+2008",
     "U+2009", "U+200A", "U+2028", "U+2029", "U+202F", "U+205F",
     "U+3000"}

RECURSIVE lstrip(_)
lstrip(x) == IF x # <<>> /\ Head(x) \in WhiteSpace THEN lstrip(Tail(x)) ELSE x

RECURSIVE rstrip(_)
rstrip(x) ==
    IF x # <<>> /\ x[Len(x)] \in WhiteSpace
    THEN rstrip(SubSeq(x, 1, Len(x) - 1))
    ELSE x

\* str.strip()
strip(x) == rstrip(lstrip(x))

DigitChars == <<"0", "1", "2", "3", "4", "5", "6", "7", "8", "9">>

\* int() reads the decimal digits of every script: the digits 0 to 9 of each
\* script outside ASCII, every character written as its code point
OtherDigitChars ==
    <<
      <<"U+0660", "U+0661", "U+0662", "U+0663", "U+0664",
        "U+0665", "U+0666", "U+0667", "U+0668", "U+0669">>,
      <<"U+06F0", "U+06F1", "U+06F2", "U+06F3", "U+06F4",
        "U+06F5", "U+06F6", "U+06F7", "U+06F8", "U+06F9">>,
      <<"U+07C0", "U+07C1", "U+07C2", "U+07C3", "U+07C4",
        "U+07C5", "U+07C6", "U+07C7", "U+07C8", "U+07C9">>,
      <<"U+0966", "U+0967", "U+0968", "U+0969", "U+096A",
        "U+096B", "U+096C", "U+096D", "U+096E", "U+096F">>,
      <<"U+09E6", "U+09E7", "U+09E8", "U+09E9", "U+09EA",
        "U+09EB", "U+09EC", "U+09ED", "U+09EE", "U+09EF">>,
      <<"U+0A66", "U+0A67", "U+0A68", "U+0A69", "U+0A6A",
        "U+0A6B", "U+0A6C", "U+0A6D", "U+0A6E", "U+0A6F">>,
      <<"U+0AE6", "U+0AE7", "U+0AE8", "U+0AE9", "U+0AEA",
        "U+0AEB", "U+0AEC", "U+0AED", "U+0AEE", "U+0AEF">>,
      <<"U+0B66", "U+0B67", "U+0B68", "U+0B69", "U+0B6A",
        "U+0B6B", "U+0B6C", "U+0B6D", "U+0B6E", "U+0B6F">>,
      <<"U+0BE6", "U+0BE7", "U+0BE8", "U+0BE9", "U+0BEA",
        "U+0BEB", "U+0BEC", "U+0BED", "U+0BEE", "U+0BEF">>,
      <<"U+0C66", "U+0C67", "U+0C68", "U+0C69", "U+0C6A",
        "U+0C6B", "U+0C6C", "U+0C6D", "U+0C6E", "U+0C6F">>,
      <<"U+0CE6", "U+0CE7", "U+0CE8", "U+0CE9", "U+0CEA",
        "U+0CEB", "U+0CEC", "U+0CED", "U+0CEE", "U+0CEF">>,
      <<"U+0D66", "U+0D67", "U+0D68", "U+0D69", "U+0D6A",
        "U+0D6B", "U+0D6C", "U+0D6D", "U+0D6E", "U+0D6F">>,
      <<"U+0DE6", "U+0DE7", "U+0DE8", "U+0DE9", "U+0DEA",
        "U+0DEB", "U+0DEC", "U+0DED", "U+0DEE", "U+0DEF">>,
      <<"U+0E50", "U+0E51", "U+0E52", "U+0E53", "U+0E54",
        "U+0E55", "U+0E56", "U+0E57", "U+0E58", "U+0E59">>,
      <<"U+0ED0", "U+0ED1", "U+0ED2", "U+0ED3", "U+0ED4",
        "U+0ED5", "U+0ED6", "U+0ED7", "U+0ED8", "U+0ED9">>,
      <<"U+0F20", "U+0F21", "U+0F22", "U+0F23", "U+0F24",
        "U+0F25", "U+0F26", "U+0F27", "U+0F28", "U+0F29">>,
      <<"U+1040", "U+1041", "U+1042", "U+1043", "U+1044",
        "U+1045", "U+1046", "U+1047", "U+1048", "U+1049">>,
      <<"U+1090", "U+1091", "U+1092", "U+1093", "U+1094",
        "U+1095", "U+1096", "U+1097", "U+1098", "U+1099">>,
      <<"U+17E0", "U+17E1", "U+17E2", "U+17E3", "U+17E4",
        "U+17E5", "U+17E6", "U+17E7", "U+17E8", "U+17E9">>,
      <<"U+1810", "U+1811", "U+1812", "U+1813", "U+1814",
        "U+1815", "U+1816", "U+1817", "U+1818", "U+1819">>,
      <<"U+1946", "U+1947", "U+1948", "U+1949", "U+194A",
        "U+194B", "U+194C", "U+194D", "U+194E", "U+194F">>,
      <<"U+19D0", "U+19D1", "U+19D2", "U+19D3", "U+19D4",
        "U+19D5", "U+19D6", "U+19D7", "U+19D8", "U+19D9">>,
      <<"U+1A80", "U+1A81", "U+1A82", "U+1A83", "U+1A84",
        "U+1A85", "U+1A86", "U+1A87", "U+1A88", "U+1A89">>,
      <<"U+1A90", "U+1A91", "U+1A92", "U+1A93", "U+1A94",
        "U+1A95", "U+1A96", "U+1A97", "U+1A98", "U+1A99">>,
      <<"U+1B50", "U+1B51", "U+1B52", "U+1B53", "U+1B54",
        "U+1B55", "U+1B56", "U+1B57", "U+1B58", "U+1B59">>,
      <<"U+1BB0", "U+1BB1", "U+1BB2", "U+1BB3", "U+1BB4",
        "U+1BB5", "U+1BB6", "U+1BB7", "U+1BB8", "U+1BB9">>,
      <<"U+1C40", "U+1C41", "U+1C42", "U+1C43", "U+1C44",
        "U+1C45", "U+1C46", "U+1C47", "U+1C48", "U+1C49">>,
      <<"U+1C50", "U+1C51", "U+1C52", "U+1C53", "U+1C54",
        "U+1C55", "U+1C56", "U+1C57", "U+1C58", "U+1C59">>,
      <<"U+A620", "U+A621", "U+A622", "U+A623", "U+A624",
        "U+A625", "U+A626", "U+A627", "U+A628", "U+A629">>,
      <<"U+A8D0", "U+A8D1", "U+A8D2", "U+A8D3", "U+A8D4",
        "U+A8D5", "U+A8D6", "U+A8D7", "U+A8D8", "U+A8D9">>,
      <<"U+A900", "U+A901", "U+A902", "U+A903", "U+A904",
        "U+A905", "U+A906", "U+A907", "U+A908", "U+A909">>,
      <<"U+A9D0", "U+A9D1", "U+A9D2", "U+A9D3", "U+A9D4",
        "U+A9D5", "U+A9D6", "U+A9D7", "U+A9D8", "U+A9D9">>,
      <<"U+A9F0", "U+A9F1", "U+A9F2", "U+A9F3", "U+A9F4",
        "U+A9F5", "U+A9F6", "U+A9F7", "U+A9F8", "U+A9F9">>,
      <<"U+AA50", "U+AA51", "U+AA52", "U+AA53", "U+AA54",
        "U+AA55", "U+AA56", "U+AA57", "U+AA58", "U+AA59">>,
      <<"U+ABF0", "U+ABF1", "U+ABF2", "U+ABF3", "U+ABF4",
        "U+ABF5", "U+ABF6", "U+ABF7", "U+ABF8", "U+ABF9">>,
      <<"U+FF10", "U+FF11", "U+FF12", "U+FF13", "U+FF14",
        "U+FF15", "U+FF16", "U+FF17", "U+FF18", "U+FF19">>,
      <<"U+104A0", "U+104A1", "U+104A2", "U+104A3", "U+104A4",
        "U+104A5", "U+104A6", "U+104A7", "U+104A8", "U+104A9">>,
      <<"U+10D30", "U+10D31", "U+10D32", "U+10D33", "U+10D34",
        "U+10D35", "U+10D36", "U+10D37", "U+10D38", "U+10D39">>,
      <<"U+11066", "U+11067", "U+11068", "U+11069", "U+1106A",
        "U+1106B", "U+1106C", "U+1106D", "U+1106E", "U+1106F">>,
      <<"U+110F0", "U+110F1", "U+110F2", "U+110F3", "U+110F4",
        "U+110F5", "U+110F6", "U+110F7", "U+110F8", "U+110F9">>,
      <<"U+11136", "U+11137", "U+11138", "U+11139", "U+1113A",
        "U+1113B", "U+1113C", "U+1113D", "U+1113E", "U+1113F">>,
      <<"U+111D0", "U+111D1", "U+111D2", "U+111D3", "U+111D4",
        "U+111D5", "U+111D6", "U+111D7", "U+111D8", "U+111D9">>,
      <<"U+112F0", "U+112F1", "U+112F2", "U+112F3", "U+112F4",
        "U+112F5", "U+112F6", "U+112F7", "U+112F8", "U+112F9">>,
      <<"U+11450", "U+11451", "U+11452", "U+11453", "U+11454",
        "U+11455", "U+11456", "U+11457", "U+11458", "U+11459">>,
      <<"U+114D0", "U+114D1", "U+114D2", "U+114D3", "U+114D4",
        "U+114D5", "U+114D6", "U+114D7", "U+114D8", "U+114D9">>,
      <<"U+11650", "U+11651", "U+11652", "U+11653", "U+11654",
        "U+11655", "U+11656", "U+11657", "U+11658", "U+11659">>,
      <<"U+116C0", "U+116C1", "U+116C2", "U+116C3", "U+116C4",
        "U+116C5", "U+116C6", "U+116C7", "U+116C8", "U+116C9">>,
      <<"U+11730", "U+11731", "U+11732", "U+11733", "U+11734",
        "U+11735", "U+11736", "U+11737", "U+11738", "U+11739">>,
      <<"U+118E0", "U+118E1", "U+118E2", "U+118E3", "U+118E4",
        "U+118E5", "U+118E6", "U+118E7", "U+118E8", "U+118E9">>,
      <<"U+11950", "U+11951", "U+11952", "U+11953", "U+11954",
        "U+11955", "U+11956", "U+11957", "U+11958", "U+11959">>,
      <<"U+11C50", "U+11C51", "U+11C52", "U+11C53", "U+11C54",
        "U+11C55", "U+11C56", "U+11C57", "U+11C58", "U+11C59">>,
      <<"U+11D50", "U+11D51", "U+11D52", "U+11D53", "U+11D54",
        "U+11D55", "U+11D56", "U+11D57", "U+11D58", "U+11D59">>,
      <<"U+11DA0", "U+11DA1", "U+11DA2", "U+11DA3", "U+11DA4",
        "U+11DA5", "U+11DA6", "U+11DA7", "U+11DA8", "U+11DA9">>,
      <<"U+16A60", "U+16A61", "U+16A62", "U+16A63", "U+16A64",
        "U+16A65", "U+16A66", "U+16A67", "U+16A68", "U+16A69">>,
      <<"U+16AC0", "U+16AC1", "U+16AC2", "U+16AC3", "U+16AC4",
        "U+16AC5", "U+16AC6", "U+16AC7", "U+16AC8", "U+16AC9">>,
      <<"U+16B50", "U+16B51", "U+16B52", "U+16B53", "U+16B54",
        "U+16B55", "U+16B56", "U+16B57", "U+16B58", "U+16B59">>,
      <<"U+1D7CE", "U+1D7CF", "U+1D7D0", "U+1D7D1", "U+1D7D2",
        "U+1D7D3", "U+1D7D4", "U+1D7D5", "U+1D7D6", "U+1D7D7">>,
      <<"U+1D7D8", "U+1D7D9", "U+1D7DA", "U+1D7DB", "U+1D7DC",
        "U+1D7DD", "U+1D7DE", "U+1D7DF", "U+1D7E0", "U+1D7E1">>,
      <<"U+1D7E2", "U+1D7E3", "U+1D7E4", "U+1D7E5", "U+1D7E6",
        "U+1D7E7", "U+1D7E8", "U+1D7E9", "U+1D7EA", "U+1D7EB">>,
      <<"U+1D7EC", "U+1D7ED", "U+1D7EE", "U+1D7EF", "U+1D7F0",
        "U+1D7F1", "U+1D7F2", "U+1D7F3", "U+1D7F4", "U+1D7F5">>,
      <<"U+1D7F6", "U+1D7F7", "U+1D7F8", "U+1D7F9", "U+1D7FA",
        "U+1D7FB", "U+1D7FC", "U+1D7FD", "U+1D7FE", "U+1D7FF">>,
      <<"U+1E140", "U+1E141", "U+1E142", "U+1E143", "U+1E144",
        "U+1E145", "U+1E146", "U+1E147", "U+1E148", "U+1E149">>,
      <<"U+1E2F0", "U+1E2F1", "U+1E2F2", "U+1E2F3", "U+1E2F4",
        "U+1E2F5", "U+1E2F6", "U+1E2F7", "U+1E2F8", "U+1E2F9">>,
      <<"U+1E950", "U+1E951", "U+1E952", "U+1E953", "U+1E954",
        "U+1E955", "U+1E956", "U+1E957", "U+1E958", "U+1E959">>,
      <<"U+1FBF0", "U+1FBF1", "U+1FBF2", "U+1FBF3", "U+1FBF4",
        "U+1FBF5", "U+1FBF6", "U+1FBF7", "U+1FBF8", "U+1FBF9">> >>

IsDigit(c) ==
    \/ c \in Range(DigitChars)
    \/ \E r \in 1..Len(OtherDigitChars) : c \in Range(OtherDigitChars[r])

DigitOf(c) ==
    (CHOOSE d \in 1..10 :
        \/ DigitChars[d] = c
        \/ \E r \in 1..Len(OtherDigitChars) : OtherDigitChars[r][d] = c) - 1

RECURSIVE DigitsValue(_)
DigitsValue(x) ==
    IF x = <<>> THEN 0
    ELSE 10 * DigitsValue(SubSeq(x, 1, Len(x) - 1)) + DigitOf(x[Len(x)])

\* int(x) of a string: <<n>>, or NoValue when int raises ValueError.  int
\* strips the whitespace around x and reads an optional sign and then digits,
\* with single underscores allowed between two digits.
int(x) ==
    LET s == strip(x)
        signed == s # <<>> /\ Head(s) \in {"+", "-"}
        body == IF signed THEN Tail(s) ELSE s
        wellformed ==
            /\ body # <<>>
            /\ IsDigit(body[1])
            /\ IsDigit(body[Len(body)])
            /\ \A i \in 1..Len(body) : IsDigit(body[i]) \/ body[i] = "_"
            /\ \A i \in 1..(Len(body) - 1) :
                  ~(body[i] = "_" /\ body[i + 1] = "_")
        digits == SelectSeq(body, LAMBDA c : c # "_")
    IN  IF ~wellformed THEN <<>>
        ELSE IF signed /\ Head(s) = "-" THEN <<0 - DigitsValue(digits)>>
        ELSE <<DigitsValue(digits)>>

\* "{}:{}".format(PREFIX, local) and f"{name}:"
format_id(prefix, local) == prefix \o <<SEP>> \o local

RECURSIVE Flatten(_)
Flatten(lists) ==
    IF lists = <<>> THEN <<>> ELSE Head(lists) \o Flatten(Tail(lists))

SeqsUpTo(S, n) == UNION {[1..k -> S] : k \in 0..n}

----------------------------------------------------------------------------
(* The registry and the adapters *)

\* PREFIX = "seoul-seocho", the namespace of the adapter of seoul_seocho.py
PREFIX == <<"s", "e", "o", "u", "l", "-", "s", "e", "o", "c", "h", "o">>

\* app.core.services: namespace -> service, in registration order: the
\* adapter of seoul_seocho.py and two more adapters of its shape, registered
\* as "b" and "c".
services == <<PREFIX, <<"b">>, <<"c">>>>

Adapters == 1..Len(services)

\* An optional value is the empty tuple or a one-element tuple.
NoValue == <<>>

ALL == <<"A", "L", "L">>

\* What the upstream of an adapter may list under contents.libList: entries
\* with both keys, and one that lacks "libName".
LibEntries ==
    { [manageCode |-> <<"1">>, libName |-> "Main"],
      [manageCode |-> <<"2">>, libName |-> "Branch"],
      [manageCode |-> ALL,     libName |-> "All"],
      [manageCode |-> <<"2">>] }

\* reading this entry raises KeyError: lib["manageCode"] in the filter, or
\* lib["libName"] for an entry the filter keeps
RaisesKeyError(lib) ==
    \/ "manageCode" \notin DOMAIN lib
    \/ lib.manageCode # ALL /\ "libName" \notin DOMAIN lib

\* SeoulSeochoService.get_libraries applied to the upstream's libList.  What
\* it returns is a generator: the libraries it yields when it is iterated to
\* its end, or that the iteration raises KeyError on the way (what it has
\* yielded by then is lost with the list being built from it).
get_libraries(prefix, libList) ==
    LET bad == {n \in 1..Len(libList) : RaisesKeyError(libList[n])}
        kept == IF bad # {} THEN <<>>
                ELSE SelectSeq(libList, LAMBDA lib : lib.manageCode # ALL)
    IN  [libraries |->
            [j \in 1..Len(kept) |->
                [id |-> format_id(prefix, kept[j].manageCode),
                 name |-> kept[j].libName,
                 coordinate |-> NoValue]],
         raises |-> bad # {}]

\* The literals of SeoulSeochoService._parse_state, written syllable by
\* syllable in Latin letters: the loanStatus compared with == (line 81), the
\* loanStatus prefix tested with startswith (line 88), and the two
\* workingStatus values of the match (line 90).
LOAN_AVAILABLE == <<"dae", "chul", "ga", "neung">>
LOAN_REFUSED == <<"dae", "chul", "bul", "ga">>
WORKING_ON_LOAN == {"daechuljung", "sanghodaechajung"}

\* SeoulSeochoService._parse_due: <<date>>, or NoValue when it raises (int
\* raises ValueError, or a part is missing and parts[...] raises IndexError)
parse_due(due) ==
    LET parts == [n \in 1..Len(split_by(due, ".")) |-> int(split_by(due, ".")[n])]
    IN  IF \E n \in 1..Len(parts) : parts[n] = <<>> THEN NoValue
        ELSE IF Len(parts) < 3 THEN NoValue
        ELSE <<[year |-> parts[1][1], month |-> parts[2][1], day |-> parts[3][1]]>>

\* HoldingStatus(<variant>=..., **common)
HoldingStatus(available, on_loan, unavailable, book) ==
    [available |-> available,
     on_loan |-> on_loan,
     unavailable |-> unavailable,
     is_requested |-> book.reservationCount > 0,
     requests |-> book.reservationCount,
     requests_available |-> book.isActiveResvYn = "Y"]

\* SeoulSeochoService._parse_state: <<status>>, or NoValue when it raises
\* (because _parse_due does)
parse_state(book) ==
    IF book.loanStatus = LOAN_AVAILABLE
    THEN <<HoldingStatus(<<[detail |-> book.workingStatus]>>, NoValue, NoValue, book)>>
    ELSE IF startswith(book.loanStatus, LOAN_REFUSED)
            /\ book.workingStatus \in WORKING_ON_LOAN
    THEN IF parse_due(book.returnPlanDate) = NoValue THEN NoValue
         ELSE <<HoldingStatus(NoValue,
                              <<[detail |-> book.workingStatus,
                                 due |-> parse_due(book.returnPlanDate)[1]]>>,
                              NoValue, book)>>
    ELSE <<HoldingStatus(NoValue, NoValue,
                         <<[detail |-> book.workingStatus]>>, book)>>

----------------------------------------------------------------------------
(* Conversion layer *)

\* a conversion that fills an absent coordinate with zeros
convert_library_zeroed(lib) ==
    [id |-> lib.id,
     name |-> lib.name,
     resolver_id |-> "json-py",
     coordinate |->
        IF lib.coordinate # NoValue
        THEN <<[latitude |-> lib.coordinate[1].latitude,
                longitude |-> lib.coordinate[1].longitude]>>
        ELSE <<[latitude |-> 0, longitude |-> 0]>>]

convert_library(lib) ==
    [id |-> lib.id,
     name |-> lib.name,
     resolver_id |-> "json-py",
     coordinate |->
        IF lib.coordinate # NoValue
        THEN <<[latitude |-> lib.coordinate[1].latitude,
                longitude |-> lib.coordinate[1].longitude]>>
        ELSE NoValue]

----------------------------------------------------------------------------
(* State *)

VARIABLES
    glState,      \* GetLibraries: "idle", "gathering" (awaiting gather),
                  \* "cancelling" (its cancellation was handed to gather),
                  \* "returned", "failed", "cancelled"
    glTask,       \* per adapter: the get_libraries call started by gather
    glGather,     \* the future of gather: "none", "pending", "result",
                  \* "exception" (an adapter's), "cancelled" (CancelledError)
    glReady,      \* the event loop's queue of what is ready to run, in order:
                  \* <<"step", p>> the next step of the call of adapter p,
                  \* <<"tell", p>> gather's callback for that call,
                  \* <<"resume", 0>> the wake-up of GetLibraries
    glResponse    \* the GetLibrariesResponse.libraries, NoValue before it returns

VARIABLE
    call          \* one call of a function of the code: its name, its
                  \* argument, "input" or "done", and what it gave

VARIABLES
    searchState,  \* Search: "idle", "waiting" (the merge awaits its next event),
                  \* "yielded" (suspended at the yield of a SearchResponse),
                  \* "completed", "failed", "cancelled"
    term,         \* request.term
    library_ids,  \* the set built from request.library_ids
    sources,      \* the search generators handed to stream.merge, in order
    mainTask,     \* the merge's task on its list of sources: "none", "pending", "done"
    mainNext,     \* index of the source that task hands over next
    streamer,     \* per source: state of the producer and of its anext task
    produced,     \* per source: number of entities its generator has yielded
    posted,       \* per source: the JSON body its adapter posted, NoValue before
    readyOrder,   \* the sources whose task has finished with an entity that is
                  \* not forwarded yet, in the order in which the tasks finished
    out           \* the SearchResponses delivered, each one entity <<source, k>>

glVars == <<glState, glTask, glGather, glReady, glResponse>>

searchVars == <<searchState, term, library_ids, sources, mainTask, mainNext,
                streamer, produced, posted, readyOrder, out>>

vars == <<glState, glTask, glGather, glReady, glResponse, searchState, term, library_ids, sources,
          mainTask, mainNext, streamer, produced, posted, readyOrder, out,
          call>>

\* a generator that yields nothing
NoLibraries == [libraries |-> <<>>, raises |-> FALSE]

\* A call of get_libraries: "created" (its task is made, no line has run),
\* "running" (its request is sent, it awaits session.get), "answered" (the
\* response has begun and the call is not resumed yet), "reading" (it awaits
\* response.json(), the body not having arrived with the response), "read"
\* (the body is there and the call is not resumed yet), "errored" (the
\* upstream has failed at either await and the call is not resumed yet),
\* "done", "failed", "cancelled"; whether its cancellation
\* has been requested; whether gather has been told that it has finished.
NoTask == [state |-> "none", result |-> NoLibraries, cancel |-> FALSE,
           told |-> FALSE]

----------------------------------------------------------------------------
(* GetLibraries *)

\* a gather that isolates failures (return_exceptions=True, failures skipped)
gather_settled(tasks, p, cancel_requested) ==
    IF \A q \in Adapters : tasks[q].told
    THEN IF cancel_requested THEN "cancelled" ELSE "result"
    ELSE "pending"

\* asyncio.gather without return_exceptions, told that the call of adapter p
\* has finished: a cancelled call or the first exception is propagated to the
\* awaiter at once; the results are set once gather has been told of every
\* call.  Gives the state of gather's future.
gather_done_callback(tasks, p, cancel_requested) ==
    IF tasks[p].state = "cancelled" THEN "cancelled"
    ELSE IF tasks[p].state = "failed" THEN "exception"
    ELSE IF \A q \in Adapters : tasks[q].told
    THEN IF cancel_requested THEN "cancelled" ELSE "result"
    ELSE "pending"

\* the calls a cancellation of gather reaches: those not finished yet
Cancellable(tasks) ==
    {p \in Adapters :
        tasks[p].state \in {"created", "running", "answered", "reading",
                             "read", "errored"}}

\* what cancelling gather does: the cancellation of every call not finished
\* yet is requested
GatherOnCancel(tasks) ==
    [p \in Adapters |->
        IF p \in Cancellable(tasks)
        THEN [tasks[p] EXCEPT !.cancel = TRUE]
        ELSE tasks[p]]

\* the elements of a set of adapters in registry order
RECURSIVE InOrder(_)
InOrder(S) == IF S = {} THEN <<>> ELSE <<Min(S)>> \o InOrder(S \ {Min(S)})

\* The steps a cancellation of gather queues: a call that awaits its upstream
\* is woken by the cancellation of what it awaits; the step of any other call
\* is in the queue already.
WokenByCancel(tasks) ==
    LET woken == InOrder({p \in Adapters :
                            /\ tasks[p].state \in {"running", "reading"}
                            /\ ~tasks[p].cancel})
    IN  [n \in 1..Len(woken) |-> <<"step", woken[n]>>]

RECURSIVE Unique(_)
Unique(s) ==
    IF s = <<>> THEN <<>>
    ELSE LET r == Unique(SubSeq(s, 1, Len(s) - 1))
             last == s[Len(s)]
         IN  IF \E i \in 1..Len(r) : r[i] = last THEN r ELSE Append(r, last)

\* a flattening that keeps one library per id
LibrariesUnique(results) ==
    Unique(Flatten([p \in 1..Len(results) |->
                [j \in 1..Len(results[p].libraries) |->
                    convert_library(results[p].libraries[j])]]))

\* the nested comprehension of GetLibraries over gather's results
Libraries(results) ==
    Flatten([p \in 1..Len(results) |->
                [j \in 1..Len(results[p].libraries) |->
                    convert_library(results[p].libraries[j])]])

\* ... which raises when the iteration of one of the generators does
LibrariesRaise(results) == \E p \in 1..Len(results) : results[p].raises

\* the request arrives and GetLibraries runs up to its await: gather makes a
\* task of one get_libraries call per registered service
GetLibrariesStart ==
    /\ glState = "idle"
    /\ searchState = "idle"
    /\ glState' = "gathering"
    /\ glTask' = [p \in Adapters |->
                    [state |-> "created", result |-> NoLibraries,
                     cancel |-> FALSE, told |-> FALSE]]
    /\ glGather' = "pending"
    /\ glReady' = [p \in Adapters |-> <<"step", p>>]
    /\ UNCHANGED glResponse
    /\ UNCHANGED <<searchVars, call>>

\* the step of the call of adapter p is the next thing the loop runs
StepOf(p) == glReady # <<>> /\ Head(glReady) = <<"step", p>>

\* a call runs for the first time: it sends its request and awaits the answer
GetLibrariesTaskStart(p) ==
    /\ StepOf(p)
    /\ glTask[p].state = "created"
    /\ ~glTask[p].cancel
    /\ glTask' = [glTask EXCEPT ![p].state = "running"]
    /\ glReady' = Tail(glReady)
    /\ UNCHANGED <<glState, glGather, glResponse>>
    /\ UNCHANGED <<searchVars, call>>

\* the upstream of an adapter begins its response: the call that awaits
\* session.get is woken
UpstreamAnswers(p) ==
    /\ glTask[p].state = "running"
    /\ ~glTask[p].cancel
    /\ glTask' = [glTask EXCEPT ![p].state = "answered"]
    /\ glReady' = Append(glReady, <<"step", p>>)
    /\ UNCHANGED <<glState, glGather, glResponse>>
    /\ UNCHANGED <<searchVars, call>>

\* a call is resumed with the response, of which the body has not arrived
\* yet: it awaits response.json()
GetLibrariesTaskRead(p) ==
    /\ StepOf(p)
    /\ glTask[p].state = "answered"
    /\ ~glTask[p].cancel
    /\ glTask' = [glTask EXCEPT ![p].state = "reading"]
    /\ glReady' = Tail(glReady)
    /\ UNCHANGED <<glState, glGather, glResponse>>
    /\ UNCHANGED <<searchVars, call>>

\* the body of the response has arrived: the call that awaits it is woken
UpstreamSendsBody(p) ==
    /\ glTask[p].state = "reading"
    /\ ~glTask[p].cancel
    /\ glTask' = [glTask EXCEPT ![p].state = "read"]
    /\ glReady' = Append(glReady, <<"step", p>>)
    /\ UNCHANGED <<glState, glGather, glResponse>>
    /\ UNCHANGED <<searchVars, call>>

\* the upstream of an adapter fails while the call awaits the response or
\* its body (unreachable, connection lost)
UpstreamFails(p) ==
    /\ glTask[p].state \in {"running", "reading"}
    /\ ~glTask[p].cancel
    /\ glTask' = [glTask EXCEPT ![p].state = "errored"]
    /\ glReady' = Append(glReady, <<"step", p>>)
    /\ UNCHANGED <<glState, glGather, glResponse>>
    /\ UNCHANGED <<searchVars, call>>

\* one adapter's get_libraries returns its generator: it is resumed with the
\* body, or with a response whose body arrived with it, so that
\* response.json() does not suspend
GetLibrariesTaskDone(p) ==
    /\ StepOf(p)
    /\ glTask[p].state \in {"answered", "read"}
    /\ ~glTask[p].cancel
    /\ \E libList \in SeqsUpTo(LibEntries, MaxLibs) :
          glTask' = [glTask EXCEPT
                        ![p].state = "done",
                        ![p].result = get_libraries(services[p], libList)]
    /\ glReady' = Append(Tail(glReady), <<"tell", p>>)
    /\ UNCHANGED <<glState, glGather, glResponse>>
    /\ UNCHANGED <<searchVars, call>>

\* one adapter's get_libraries raises: it is resumed with the failure of its
\* upstream, or with a body (awaited, or arrived with the response) that is
\* not the JSON document it reads
GetLibrariesTaskFail(p) ==
    /\ StepOf(p)
    /\ glTask[p].state \in {"errored", "answered", "read"}
    /\ ~glTask[p].cancel
    /\ glTask' = [glTask EXCEPT ![p].state = "failed"]
    /\ glReady' = Append(Tail(glReady), <<"tell", p>>)
    /\ UNCHANGED <<glState, glGather, glResponse>>
    /\ UNCHANGED <<searchVars, call>>

\* a call whose cancellation was requested ends with CancelledError at its
\* next step, whatever it was about to do
GetLibrariesTaskCancelled(p) ==
    /\ StepOf(p)
    /\ glTask[p].cancel
    /\ glTask' = [glTask EXCEPT ![p].state = "cancelled"]
    /\ glReady' = Append(Tail(glReady), <<"tell", p>>)
    /\ UNCHANGED <<glState, glGather, glResponse>>
    /\ UNCHANGED <<searchVars, call>>

\* the loop tells gather of a call that has finished; a gather whose future
\* is done only counts it, one that becomes done wakes GetLibraries
GatherCallback ==
    /\ glReady # <<>>
    /\ Head(glReady)[1] = "tell"
    /\ LET p == Head(glReady)[2]
           tasks == [glTask EXCEPT ![p].told = TRUE]
           fut == IF glGather = "pending"
                  THEN gather_done_callback(tasks, p, glState = "cancelling")
                  ELSE glGather IN
        /\ glTask' = tasks
        /\ glGather' = fut
        /\ glReady' = IF glGather = "pending" /\ fut # "pending"
                      THEN Append(Tail(glReady), <<"resume", 0>>)
                      ELSE Tail(glReady)
    /\ UNCHANGED <<glState, glResponse>>
    /\ UNCHANGED <<searchVars, call>>

\* the wake-up of GetLibraries is the next thing the loop runs
Resumed == glReady # <<>> /\ Head(glReady) = <<"resume", 0>>

\* GetLibraries is resumed with gather's results and every generator is
\* iterated to its end
GetLibrariesReturn ==
    /\ Resumed
    /\ glState \in {"gathering", "cancelling"}
    /\ glGather = "result"
    /\ ~LibrariesRaise([p \in Adapters |-> glTask[p].result])
    /\ glResponse' = <<Libraries([p \in Adapters |-> glTask[p].result])>>
    /\ glState' = "returned"
    /\ glReady' = Tail(glReady)
    /\ UNCHANGED <<glTask, glGather>>
    /\ UNCHANGED <<searchVars, call>>

\* GetLibraries is resumed with the exception gather propagates (the other
\* calls are left as they are), or with gather's results, of which a
\* generator raises while the comprehension iterates it
GetLibrariesRaise ==
    /\ Resumed
    /\ glState \in {"gathering", "cancelling"}
    /\ \/ glGather = "exception"
       \/ /\ glGather = "result"
          /\ LibrariesRaise([p \in Adapters |-> glTask[p].result])
    /\ glState' = "failed"
    /\ glReady' = Tail(glReady)
    /\ UNCHANGED <<glTask, glGather, glResponse>>
    /\ UNCHANGED <<searchVars, call>>

\* The caller cancels the unary call.  Before GetLibraries has run at all,
\* its first step raises CancelledError and no call is started.  While it
\* awaits a gather that is still pending and has a call not finished yet, the
\* cancellation is handed to gather, which requests the cancellation of the
\* unfinished calls, and GetLibraries goes on awaiting it; a repeated
\* cancellation changes nothing then.  Otherwise (gather is done and
\* GetLibraries not yet resumed, or gather only waits to be told of finished
\* calls) GetLibraries is marked to raise CancelledError at its next step,
\* whatever gather hands it, and no call is touched.
GetLibrariesCancel ==
    /\ \/ /\ glState = "idle"
          /\ searchState = "idle"
          /\ glState' = "cancelled"
          /\ UNCHANGED <<glTask, glReady>>
       \/ /\ glState \in {"gathering", "cancelling"}
          /\ IF glGather = "pending" /\ Cancellable(glTask) # {}
             THEN /\ glState' = "cancelling"
                  /\ glTask' = GatherOnCancel(glTask)
                  /\ glReady' = glReady \o WokenByCancel(glTask)
             ELSE /\ glState' = "cancelled"
                  /\ UNCHANGED <<glTask, glReady>>
    /\ UNCHANGED <<glGather, glResponse>>
    /\ UNCHANGED <<searchVars, call>>

\* GetLibraries is resumed with the CancelledError gather propagates, or
\* marked to raise it
GetLibrariesCancelled ==
    /\ Resumed
    /\ \/ glState = "cancelled"
       \/ glState \in {"gathering", "cancelling"} /\ glGather = "cancelled"
    /\ glState' = "cancelled"
    /\ glReady' = Tail(glReady)
    /\ UNCHANGED <<glTask, glGather, glResponse>>
    /\ UNCHANGED <<searchVars, call>>

----------------------------------------------------------------------------
(* Search: routing *)

Terms == {"foo", "bar"}

\* The library ids a request may carry.
IdPool ==
    { format_id(PREFIX, <<"1">>), format_id(PREFIX, <<"2">>),
      <<"b", ":", "9">>, PREFIX, <<"z", ":", "1">>,
      format_id(PREFIX, <<"b", ":", "1">>) }

\* a slip that takes every piece of the id, not the first one
service_ids_every_piece(lids) ==
    UNION {Range(split(library_id)) : library_id \in lids}

\* set(library_id.split(":")[0] for library_id in library_ids)
service_ids(lids) == {split(library_id)[1] : library_id \in lids}

\* a slip that reads an empty scope as "every adapter"
SelectedOrAll(name, sids) == name \in sids \/ sids = {}

\* the filter "if name in service_ids" of the generator expression
Selected(name, sids) == name \in sids

\* a slip that looks for the name among the pieces of the id
search_ids_any_piece(name, lids) ==
    {library_id \in lids : name \in Range(split(library_id))}

\* the set comprehension handed to service.search as its library_ids
search_ids(name, lids) ==
    {library_id \in lids : startswith(library_id, name \o <<SEP>>)}

\* the arguments of one service.search(...) call
search_call(name, keyword, lids) ==
    [name |-> name, keyword |-> keyword, library_ids |-> search_ids(name, lids)]

\* a routing that gives up when a requested namespace is not registered
search_calls_all_known(keyword, lids) ==
    LET chosen == SelectSeq(services,
                            LAMBDA name : Selected(name, service_ids(lids)))
    IN  IF service_ids(lids) \subseteq Range(services)
        THEN [i \in 1..Len(chosen) |-> search_call(chosen[i], keyword, lids)]
        ELSE <<>>

\* the generator expression over services.items(): one search generator per
\* selected service, in registry order
search_calls(keyword, lids) ==
    LET chosen == SelectSeq(services,
                            LAMBDA name : Selected(name, service_ids(lids)))
    IN  [i \in 1..Len(chosen) |-> search_call(chosen[i], keyword, lids)]

\* the "manageCode" list of the body SeoulSeochoService.search posts: what
\* is removed is the literal "seoul-seocho:", whatever namespace the adapter
\* is registered under
manageCode(lids) ==
    {removeprefix(lid, <<"s", "e", "o", "u", "l", "-",
                         "s", "e", "o", "c", "h", "o", ":">>) : lid \in lids}

search_post(keyword, lids) ==
    [searchKeyword |-> keyword, manageCode |-> manageCode(lids)]

----------------------------------------------------------------------------
(* Search: the merge of stream.merge(...).stream() *)

Sources == 1..Len(sources)

\* the positions a source can have: there are no more sources than
\* registered services that some id of the pool selects
SourcePositions ==
    1..Cardinality({p \in Adapters :
                       Selected(services[p], service_ids(IdPool))})

\* an anext task that has finished: with an entity, with StopAsyncIteration,
\* with an exception
TaskDone == {"item", "stop", "error"}

\* a producer that was entered and has not finished: its task is in flight,
\* holds an entity not yet forwarded, or it is suspended at its yield
Active == {"pending", "item", "yielded"}

\* a merge that waits for its first substreamer only (an ordered merge)
wait_first_only(st, mainT) ==
    LET subs == {i \in DOMAIN st : st[i] \in {"pending"} \cup TaskDone}
    IN  IF subs # {} /\ st[Min(subs)] \in TaskDone THEN Min(subs)
        ELSE IF mainT = "done" THEN 0
        ELSE -1

\* The streamer whose finished task the merge handles next: the first one in
\* the order substreamers, then the main streamer (0); -1 when no task of the
\* merge has finished yet.
wait_single_event(st, mainT) ==
    LET done == {i \in DOMAIN st : st[i] \in TaskDone}
    IN  IF done # {} THEN Min(done)
        ELSE IF mainT = "done" THEN 0
        ELSE -1

\* a slip that counts the tasks still in flight only
TasksInFlight(st, mainT) ==
    mainT # "none" \/ \E i \in DOMAIN st : st[i] = "pending"

\* "while manager.tasks": the merge goes on while any task is left
TasksLeft(st, mainT) ==
    mainT # "none" \/ \E i \in DOMAIN st : st[i] \in {"pending"} \cup TaskDone

\* an exit that closes the suspended generators and leaves the tasks alone
CloseSuspendedOnly(st) ==
    [i \in DOMAIN st |->
        IF st[i] \in {"item", "yielded"} THEN "closed" ELSE st[i]]

\* StreamerManager.__aexit__: every task still there is cancelled and every
\* streamer still entered is closed.  A generator that already ended (with
\* StopAsyncIteration or an exception) or was never entered stays as it is.
CleanStreamers(st) ==
    [i \in DOMAIN st |->
        CASE st[i] = "pending" -> "cancelled"
          [] st[i] \in {"item", "yielded"} -> "closed"
          [] OTHER -> st[i]]

\* the request arrives: the generators are created and the merge is entered
SearchStart(t, ids) ==
    /\ searchState = "idle"
    /\ glState = "idle"
    /\ term' = t
    /\ library_ids' = Range(ids)
    /\ sources' = search_calls(t, Range(ids))
    /\ streamer' = [i \in 1..Len(sources') |-> "created"]
    /\ produced' = [i \in 1..Len(sources') |-> 0]
    /\ posted' = [i \in 1..Len(sources') |-> NoValue]
    /\ mainTask' = "pending"
    /\ mainNext' = 1
    /\ searchState' = "waiting"
    /\ UNCHANGED <<readyOrder, out>>
    /\ UNCHANGED <<glVars, call>>

\* the task iterating the list of sources finishes
MainStep ==
    /\ mainTask = "pending"
    /\ searchState \in {"waiting", "yielded"}
    /\ mainTask' = "done"
    /\ UNCHANGED <<searchState, term, library_ids, sources, mainNext, streamer,
                   produced, posted,
                   readyOrder, out>>
    /\ UNCHANGED <<glVars, call>>

\* A producer's anext task runs for the first time: the adapter posts its
\* request and awaits the response.
ProducerPost(i) ==
    /\ streamer[i] = "pending"
    /\ posted[i] = NoValue
    /\ posted' = [posted EXCEPT ![i] = <<search_post(sources[i].keyword,
                                                     sources[i].library_ids)>>]
    /\ UNCHANGED <<searchState, term, library_ids, sources, mainTask, mainNext,
                   streamer, produced, readyOrder, out>>
    /\ UNCHANGED <<glVars, call>>

\* a producer's anext task ends with the next entity
ProducerYield(i) ==
    /\ streamer[i] = "pending"
    /\ posted[i] # NoValue
    /\ produced[i] < MaxItems
    /\ produced' = [produced EXCEPT ![i] = @ + 1]
    /\ streamer' = [streamer EXCEPT ![i] = "item"]
    /\ readyOrder' = Append(readyOrder, i)
    /\ UNCHANGED <<searchState, term, library_ids, sources, mainTask, mainNext,
                   posted, out>>
    /\ UNCHANGED <<glVars, call>>

\* ... with StopAsyncIteration: the bookList is exhausted
ProducerStop(i) ==
    /\ streamer[i] = "pending"
    /\ posted[i] # NoValue
    /\ streamer' = [streamer EXCEPT ![i] = "stop"]
    /\ UNCHANGED <<searchState, term, library_ids, sources, mainTask, mainNext,
                   produced, posted,
                   readyOrder, out>>
    /\ UNCHANGED <<glVars, call>>

\* ... with an exception: the request or a record of the bookList fails
ProducerFail(i) ==
    /\ streamer[i] = "pending"
    /\ posted[i] # NoValue
    /\ streamer' = [streamer EXCEPT ![i] = "error"]
    /\ UNCHANGED <<searchState, term, library_ids, sources, mainTask, mainNext,
                   produced, posted,
                   readyOrder, out>>
    /\ UNCHANGED <<glVars, call>>

\* the merge takes the main streamer's next source, enters it and starts its
\* task, and re-schedules the main streamer
MergeEnter ==
    /\ searchState = "waiting"
    /\ wait_single_event(streamer, mainTask) = 0
    /\ mainNext <= Len(sources)
    /\ streamer' = [streamer EXCEPT ![mainNext] = "pending"]
    /\ mainNext' = mainNext + 1
    /\ mainTask' = "pending"
    /\ UNCHANGED <<searchState, term, library_ids, sources, produced, posted,
                   readyOrder, out>>
    /\ UNCHANGED <<glVars, call>>

\* the main streamer is exhausted
MergeMainEnd ==
    /\ searchState = "waiting"
    /\ wait_single_event(streamer, mainTask) = 0
    /\ mainNext > Len(sources)
    /\ mainTask' = "none"
    /\ searchState' = IF TasksLeft(streamer, "none") THEN "waiting" ELSE "completed"
    /\ streamer' = IF TasksLeft(streamer, "none") THEN streamer
                   ELSE CleanStreamers(streamer)
    /\ UNCHANGED <<term, library_ids, sources, mainNext, produced, posted,
                   readyOrder, out>>
    /\ UNCHANGED <<glVars, call>>

\* a merge that hands the latest entity over before the earlier ones
MergeYieldFirst ==
    /\ searchState = "waiting"
    /\ LET k == wait_single_event(streamer, mainTask) IN
        /\ k > 0
        /\ streamer[k] = "item"
        /\ out' = << <<k, produced[k]>> >> \o out
        /\ streamer' = [streamer EXCEPT ![k] = "yielded"]
        /\ readyOrder' = SelectSeq(readyOrder, LAMBDA j : j # k)
    /\ searchState' = "yielded"
    /\ UNCHANGED <<term, library_ids, sources, mainTask, mainNext, produced, posted>>
    /\ UNCHANGED <<glVars, call>>

\* the merge forwards an entity: Search yields SearchResponse(entities=[entity])
MergeYield ==
    /\ searchState = "waiting"
    /\ LET k == wait_single_event(streamer, mainTask) IN
        /\ k > 0
        /\ streamer[k] = "item"
        /\ out' = Append(out, <<k, produced[k]>>)
        /\ streamer' = [streamer EXCEPT ![k] = "yielded"]
        /\ readyOrder' = SelectSeq(readyOrder, LAMBDA j : j # k)
    /\ searchState' = "yielded"
    /\ UNCHANGED <<term, library_ids, sources, mainTask, mainNext, produced, posted>>
    /\ UNCHANGED <<glVars, call>>

\* a merge that ends with its first exhausted producer
MergeStopFirst ==
    /\ searchState = "waiting"
    /\ LET k == wait_single_event(streamer, mainTask) IN
        /\ k > 0
        /\ streamer[k] = "stop"
        /\ streamer' = CleanStreamers([streamer EXCEPT ![k] = "finished"])
    /\ searchState' = "completed"
    /\ mainTask' = "none"
    /\ readyOrder' = <<>>
    /\ UNCHANGED <<term, library_ids, sources, mainNext, produced, posted, out>>
    /\ UNCHANGED <<glVars, call>>

\* a producer is exhausted: its streamer is cleaned, and the merge ends when
\* no task is left
MergeStop ==
    /\ searchState = "waiting"
    /\ LET k == wait_single_event(streamer, mainTask)
           st == [streamer EXCEPT ![k] = "finished"] IN
        /\ k > 0
        /\ streamer[k] = "stop"
        /\ searchState' = IF TasksLeft(st, mainTask) THEN "waiting" ELSE "completed"
        /\ streamer' = IF TasksLeft(st, mainTask) THEN st ELSE CleanStreamers(st)
    /\ UNCHANGED <<term, library_ids, sources, mainTask, mainNext, produced,
                   posted,
                   readyOrder, out>>
    /\ UNCHANGED <<glVars, call>>

\* a merge that isolates a failing producer and goes on with the others
MergeSkipFailed ==
    /\ searchState = "waiting"
    /\ LET k == wait_single_event(streamer, mainTask)
           st == [streamer EXCEPT ![k] = "failed"] IN
        /\ k > 0
        /\ streamer[k] = "error"
        /\ searchState' = IF TasksLeft(st, mainTask) THEN "waiting" ELSE "completed"
        /\ streamer' = IF TasksLeft(st, mainTask) THEN st ELSE CleanStreamers(st)
    /\ UNCHANGED <<term, library_ids, sources, mainTask, mainNext, produced,
                   posted,
                   readyOrder, out>>
    /\ UNCHANGED <<glVars, call>>

\* a producer's exception leaves the merge: the manager exits, Search raises
MergeRaise ==
    /\ searchState = "waiting"
    /\ LET k == wait_single_event(streamer, mainTask) IN
        /\ k > 0
        /\ streamer[k] = "error"
    /\ searchState' = "failed"
    /\ streamer' = CleanStreamers(streamer)
    /\ mainTask' = "none"
    /\ readyOrder' = <<>>
    /\ UNCHANGED <<term, library_ids, sources, mainNext, produced, posted, out>>
    /\ UNCHANGED <<glVars, call>>

\* a resumption that forgets to re-schedule the producer
SearchPullOnly ==
    /\ searchState = "yielded"
    /\ searchState' = "waiting"
    /\ UNCHANGED <<term, library_ids, sources, mainTask, mainNext, streamer,
                   produced, posted,
                   readyOrder, out>>
    /\ UNCHANGED <<glVars, call>>

\* the caller asks for the next response: the producer whose entity was
\* forwarded is re-scheduled
SearchPull ==
    /\ searchState = "yielded"
    /\ streamer' = [i \in DOMAIN streamer |->
                       IF streamer[i] = "yielded" THEN "pending" ELSE streamer[i]]
    /\ searchState' = "waiting"
    /\ UNCHANGED <<term, library_ids, sources, mainTask, mainNext, produced,
                   posted,
                   readyOrder, out>>
    /\ UNCHANGED <<glVars, call>>

\* the caller cancels or abandons the stream
SearchCancel ==
    /\ searchState \in {"waiting", "yielded"}
    /\ searchState' = "cancelled"
    /\ streamer' = CleanStreamers(streamer)
    /\ mainTask' = "none"
    /\ readyOrder' = <<>>
    /\ UNCHANGED <<term, library_ids, sources, mainNext, produced, posted, out>>
    /\ UNCHANGED <<glVars, call>>

----------------------------------------------------------------------------

NoCall == [fn |-> "none", arg |-> <<>>, state |-> "none", result |-> <<>>]

\* no request has arrived
Idle ==
    /\ glState = "idle"
    /\ glTask = [p \in Adapters |-> NoTask]
    /\ glGather = "none"
    /\ glReady = <<>>
    /\ glResponse = NoValue
    /\ searchState = "idle"
    /\ term = ""
    /\ library_ids = {}
    /\ sources = <<>>
    /\ mainTask = "none"
    /\ mainNext = 1
    /\ streamer = <<>>
    /\ produced = <<>>
    /\ posted = <<>>
    /\ readyOrder = <<>>
    /\ out = <<>>

Init == Idle /\ call = NoCall

Next ==
    \/ GetLibrariesStart
    \/ \E p \in Adapters : GetLibrariesTaskStart(p)
    \/ \E p \in Adapters : UpstreamAnswers(p)
    \/ \E p \in Adapters : GetLibrariesTaskRead(p)
    \/ \E p \in Adapters : UpstreamSendsBody(p)
    \/ \E p \in Adapters : UpstreamFails(p)
    \/ \E p \in Adapters : GetLibrariesTaskDone(p)
    \/ \E p \in Adapters : GetLibrariesTaskFail(p)
    \/ \E p \in Adapters : GetLibrariesTaskCancelled(p)
    \/ GatherCallback
    \/ GetLibrariesReturn
    \/ GetLibrariesRaise
    \/ GetLibrariesCancel
    \/ GetLibrariesCancelled
    \/ \E t \in Terms, ids \in SeqsUpTo(IdPool, MaxIds) : SearchStart(t, ids)
    \/ MainStep
    \/ \E i \in Sources : ProducerPost(i)
    \/ \E i \in Sources : ProducerYield(i)
    \/ \E i \in Sources : ProducerStop(i)
    \/ \E i \in Sources : ProducerFail(i)
    \/ MergeEnter
    \/ MergeMainEnd
    \/ MergeYield
    \/ MergeStop
    \/ MergeRaise
    \/ SearchPull
    \/ SearchCancel

Spec == Init /\ [][Next]_vars

\* the steps of a Search call
SearchNext ==
    \/ \E t \in Terms, ids \in SeqsUpTo(IdPool, MaxIds) : SearchStart(t, ids)
    \/ MainStep
    \/ \E i \in Sources : ProducerPost(i)
    \/ \E i \in Sources : ProducerYield(i)
    \/ \E i \in Sources : ProducerStop(i)
    \/ \E i \in Sources : ProducerFail(i)
    \/ MergeEnter
    \/ MergeMainEnd
    \/ MergeYield
    \/ MergeStop
    \/ MergeRaise
    \/ SearchPull
    \/ SearchCancel

\* The merge and the caller keep going: the event loop runs the merge whenever
\* one of its tasks has finished, the task over the list of sources never
\* blocks, and the caller keeps asking for the next response.  Nothing is
\* assumed of the adapters: a producer may stall for ever.
MergeEvent == MergeEnter \/ MergeMainEnd \/ MergeYield \/ MergeStop \/ MergeRaise

FairMerge ==
    /\ Init /\ [][SearchNext]_vars
    /\ WF_vars(MergeEvent)
    /\ WF_vars(MainStep)
    /\ WF_vars(SearchPull)

\* one step of a producer's anext task
ProducerStep(i) ==
    /\ i \in Sources
    /\ ProducerPost(i) \/ ProducerYield(i) \/ ProducerStop(i) \/ ProducerFail(i)

\* ... and the adapters keep going too: the task of a producer that was
\* asked for its next entity ends, with an entity, the end of the stream or
\* an exception.
FairSearch ==
    /\ FairMerge
    /\ \A i \in SourcePositions : WF_vars(ProducerStep(i))

----------------------------------------------------------------------------
(* The functions of the code, applied to inputs of their own *)

\* namespaces and local ids, with and without separators in them
NamespaceInputs == SeqsUpTo({"a", SEP}, MaxStrLen)
LocalInputs == SeqsUpTo({"1", SEP}, MaxStrLen)

\* the records of contents.bookList, as far as _parse_state reads them
BookInputs ==
    [loanStatus : {LOAN_AVAILABLE, LOAN_REFUSED,
                   LOAN_REFUSED \o <<"(", "ye", "yak", ")">>,
                   <<"jeong", "ri", "jung">>},
     workingStatus : WORKING_ON_LOAN \cup {"bichijung"},
     reservationCount : 0..MaxRequests,
     isActiveResvYn : {"Y", "N"},
     returnPlanDate : { <<"2", "0", "2", "3", ".", "1", "0", ".", "0", "5">>,
                        <<"2", "0", "2", "3", ".", "1", "0", ".", "0", "5", "\r">>,
                        <<"2", "0", "2", "3", ".", "1", "0", ".", "U+0966", "U+096B">>,
                        <<"2", "0", "2", "3", ".", "1", "0", ".", "-", "5">>,
                        <<"2", "0", "2", "3", ".", "1", "0">>,
                        <<>> }]

\* the libraries an adapter may hand to convert_library
LibraryInputs ==
    [id : {format_id(PREFIX, <<"1">>), <<"b", ":", "1">>},
     name : {"Main", "Branch"},
     coordinate : {NoValue,
                   <<[latitude |-> 0, longitude |-> 0]>>,
                   <<[latitude |-> 37, longitude |-> 127]>>}]

CallInputs ==
    {[fn |-> "service_ids", arg |-> [namespace |-> ns, local |-> local],
      state |-> "input", result |-> <<>>] :
        ns \in NamespaceInputs, local \in LocalInputs}
    \cup {[fn |-> "parse_state", arg |-> book, state |-> "input", result |-> <<>>] :
              book \in BookInputs}
    \cup {[fn |-> "convert_library", arg |-> lib, state |-> "input", result |-> <<>>] :
              lib \in LibraryInputs}

\* the namespace Search derives from the id an adapter composed
ApplyServiceIds ==
    /\ call.fn = "service_ids"
    /\ call.state = "input"
    /\ call' = [call EXCEPT
                    !.state = "done",
                    !.result = service_ids(
                        {format_id(call.arg.namespace, call.arg.local)})]
    /\ UNCHANGED <<glVars, searchVars>>

ApplyParseState ==
    /\ call.fn = "parse_state"
    /\ call.state = "input"
    /\ call' = [call EXCEPT !.state = "done", !.result = parse_state(call.arg)]
    /\ UNCHANGED <<glVars, searchVars>>

ApplyConvertLibrary ==
    /\ call.fn = "convert_library"
    /\ call.state = "input"
    /\ call' = [call EXCEPT !.state = "done", !.result = convert_library(call.arg)]
    /\ UNCHANGED <<glVars, searchVars>>

CallInit == Idle /\ call \in CallInputs

CallNext == ApplyServiceIds \/ ApplyParseState \/ ApplyConvertLibrary

CallSpec == CallInit /\ [][CallNext]_vars

----------------------------------------------------------------------------
(* Properties *)

RECURSIVE SumTo(_, _)
SumTo(f, n) == IF n = 0 THEN 0 ELSE f[n] + SumTo(f, n - 1)

ResultCount == [p \in Adapters |-> Len(glTask[p].result.libraries)]

\* the text of an id after the prefix "name:"
LocalPart(id, name) == SubSeq(id, Len(name) + 2, Len(id))

\* the id is name, the separator, and a local part
HasNamespace(id, name) == id = name \o <<SEP>> \o LocalPart(id, name)

\* C1: when every adapter's get_libraries succeeded, the libraries returned
\* are the adapters' results one after the other, in registry order and in
\* each adapter's own order, and there are as many of them as the adapters
\* returned together.
C1_ListingIsConcatenation ==
    glState = "returned" =>
        LET libs == glResponse[1] IN
        /\ Len(libs) = SumTo(ResultCount, Len(services))
        /\ \A p \in Adapters : \A j \in 1..ResultCount[p] :
              LET lib == libs[SumTo(ResultCount, p - 1) + j] IN
              /\ lib.id = glTask[p].result.libraries[j].id
              /\ lib.name = glTask[p].result.libraries[j].name

\* seoul-seocho returns [seoul-seocho:1, seoul-seocho:2], b returns [b:1], c
\* returns nothing
C1_Witness ==
    /\ glState = "returned"
    /\ ResultCount = <<2, 1, 0>>
    /\ [j \in 1..3 |-> glResponse[1][j].id]
          = << format_id(PREFIX, <<"1">>), format_id(PREFIX, <<"2">>),
               <<"b", ":", "1">> >>

\* C2: when an adapter's get_libraries has failed (the call raised, or the
\* generator it returned raises when it is iterated), GetLibraries does not
\* return: there is no response, not even one with the libraries of the
\* adapters that succeeded.
C2_NoPartialListing ==
    (\E p \in Adapters : glTask[p].state = "failed" \/ glTask[p].result.raises) =>
        /\ glState # "returned"
        /\ glResponse = NoValue

\* GetLibraries failed on an adapter's exception while another adapter had
\* returned libraries
C2_Witness ==
    /\ glState = "failed"
    /\ glResponse = NoValue
    /\ \E p \in Adapters : glTask[p].state = "failed"
    /\ \E p \in Adapters :
          glTask[p].state = "done" /\ glTask[p].result.libraries # <<>>

\* C3: when every requested id carries namespace A, no adapter of another
\* namespace has its search invoked.
C3_OnlyNamespaceInvoked ==
    searchState # "idle" =>
        \A A \in Range(services) \cup {<<"z">>} :
            (\A id \in library_ids : HasNamespace(id, A)) =>
                /\ \A i \in Sources : sources[i].name = A
                /\ Len(sources) <= 1

\* a request for seoul-seocho:1 and seoul-seocho:2 ran that adapter alone
C3_Witness ==
    /\ library_ids = {format_id(PREFIX, <<"1">>), format_id(PREFIX, <<"2">>)}
    /\ Len(sources) = 1
    /\ sources[1].name = PREFIX
    /\ posted[1] # NoValue

\* C4 as claimed: every selected adapter's search is invoked with the term and
\* with its ids without their "namespace:" prefix.
C4_LocalIdsHandedOver ==
    \A i \in Sources :
        /\ sources[i].keyword = term
        /\ sources[i].library_ids =
              {LocalPart(id, sources[i].name) :
                  id \in {x \in library_ids : HasNamespace(x, sources[i].name)}}

\* C5: a Search stream that completed delivered every entity its producers
\* yielded exactly once: as many responses as entities were produced.
C5_EveryEntityOnce ==
    searchState = "completed" =>
        /\ Len(out) = SumTo(produced, Len(produced))
        /\ \A i \in Sources : \A k \in 1..produced[i] :
              Cardinality({n \in 1..Len(out) : out[n] = <<i, k>>}) = 1

\* two producers, k1 = 2 and k2 = 1, the second one's entity delivered first
C5_Witness ==
    /\ searchState = "completed"
    /\ Len(sources) = 2
    /\ produced = <<2, 1>>
    /\ Len(out) = 3
    /\ out[1] = <<2, 1>>

\* C6: a producer's failure fails the Search stream: once a producer has
\* failed the failure is never dropped and the stream never completes
\* normally, a failed stream has no producer left active, and after the
\* failure has surfaced no further entity is delivered or produced.
C6_FailFast ==
    /\ []((\E i \in Sources : streamer[i] = "error") => searchState # "completed")
    /\ [](searchState = "failed" =>
            /\ \E i \in Sources : streamer[i] = "error"
            /\ \A i \in Sources : streamer[i] \notin Active)
    /\ [][(\E i \in Sources : streamer[i] = "error") =>
            /\ \E i \in Sources : streamer'[i] = "error"
            /\ searchState' # "completed"]_vars
    /\ [][searchState = "failed" =>
            /\ searchState' = "failed"
            /\ out' = out
            /\ produced' = produced]_vars

\* a producer failed after its first entity was delivered, and the other
\* producer's task was cancelled
C6_Witness ==
    /\ searchState = "failed"
    /\ \E i \in Sources : streamer[i] = "error" /\ <<i, 1>> \in Range(out)
    /\ \E j \in Sources : streamer[j] = "cancelled"

\* C7: once the caller has cancelled the Search stream no producer is active,
\* and none produces, posts or delivers anything afterwards.
C7_CancelStopsProducers ==
    /\ [](searchState = "cancelled" =>
            \A i \in Sources : streamer[i] \notin Active)
    /\ [][searchState = "cancelled" =>
            UNCHANGED <<streamer, produced, posted, readyOrder, out>>]_vars

\* cancelled mid-flight: an entity was delivered, a task was cancelled while
\* its adapter's first request was in flight, and a suspended generator was
\* closed
C7_Witness ==
    /\ searchState = "cancelled"
    /\ Len(out) >= 1
    /\ \E i \in Sources : /\ streamer[i] = "cancelled"
                           /\ posted[i] # NoValue
                           /\ produced[i] = 0
    /\ \E j \in Sources : streamer[j] = "closed"

\* C8 as claimed: once GetLibraries has returned or failed, none of the
\* get_libraries calls it started is still running.
C8_NoListingCallLeft ==
    glState \in {"returned", "failed"} =>
        \A p \in Adapters :
            glTask[p].state \notin {"created", "running", "answered",
                                     "reading", "read", "errored"}

\* C9: the Search stream completes only when every selected producer has
\* run to its end.
C9_CompletesAfterAllProducers ==
    searchState = "completed" =>
        /\ mainNext > Len(sources)
        /\ \A i \in Sources : streamer[i] = "finished"

\* the stream completed with two producers, the first one exhausted before
\* the second one had yielded its last entity
C9_Witness ==
    /\ searchState = "completed"
    /\ Len(sources) = 2
    /\ produced = <<0, 2>>
    /\ streamer = <<"finished", "finished">>

\* C10 as claimed: the merge is first-ready-first-out, the entity it forwards
\* is always the one that has been ready longest, and an entity a producer
\* has ready is forwarded whatever the other producers do.
C10_FirstReadyFirstOut ==
    /\ [][\A k \in SourcePositions :
            (Len(out') = Len(out) + 1 /\ out'[Len(out')][1] = k) =>
                (readyOrder # <<>> /\ Head(readyOrder) = k)]_vars
    /\ \A i \in SourcePositions :
          (i \in Sources /\ streamer[i] = "item")
              ~> (i \in Sources /\ streamer[i] # "item")

\* C10, amended: a slow or stalled producer never blocks the others.  Every
\* producer's stream being finite, an entity a producer has ready is delivered
\* (unless the stream fails or is cancelled first) whatever the other
\* producers do, even when they stall for ever.  Among entities that are
\* ready together the merge keeps no order of readiness.
C10_ReadyEntityForwarded ==
    \A i \in SourcePositions :
        (i \in Sources /\ streamer[i] = "item")
            ~> /\ i \in Sources
               /\ streamer[i] # "item"
               /\ \/ <<i, produced[i]>> \in Range(out)
                  \/ searchState \in {"failed", "cancelled"}

\* the second producer's entity was delivered while the first producer's
\* task is still in flight and has produced nothing
C10_Witness ==
    /\ Len(sources) = 2
    /\ out = << <<2, 1>> >>
    /\ streamer[1] = "pending"
    /\ produced[1] = 0

\* C11 as claimed: a Search whose library_ids hold an id without the
\* separator fails with MalformedIdentifier: the stream fails and no adapter's
\* search is invoked for the request.
C11_MalformedIdRejected ==
    (searchState # "idle" /\ \E id \in library_ids : SEP \notin Range(id)) =>
        /\ searchState = "failed"
        /\ sources = <<>>

\* C12: a Search with no library ids derives no namespace, invokes no
\* adapter's search, and its stream delivers no entity and does not fail.
C12_EmptyRequestQueriesNothing ==
    (searchState # "idle" /\ library_ids = {}) =>
        /\ service_ids(library_ids) = {}
        /\ sources = <<>>
        /\ out = <<>>
        /\ searchState \in {"waiting", "completed", "cancelled"}

\* the empty request's stream has completed, with nothing delivered
C12_Witness ==
    /\ library_ids = {}
    /\ searchState = "completed"
    /\ sources = <<>>
    /\ out = <<>>

\* C13: an id whose namespace is not registered matches no adapter and is no
\* error: every search invoked is one of a registered adapter, no adapter is
\* handed such an id, the adapter owning any other requested id is still
\* invoked with it, and the stream fails only when a producer has failed.
C13_UnknownNamespaceIgnored ==
    searchState # "idle" =>
        /\ \A i \in Sources :
              /\ sources[i].name \in Range(services)
              /\ \A id \in sources[i].library_ids :
                    HasNamespace(id, sources[i].name)
        /\ \A id \in library_ids : \A p \in Adapters :
              HasNamespace(id, services[p]) =>
                  \E i \in Sources : /\ sources[i].name = services[p]
                                     /\ id \in sources[i].library_ids
        /\ searchState = "failed" => \E i \in Sources : streamer[i] = "error"

\* a request for z:1 and seoul-seocho:1 ran the adapter seoul-seocho alone,
\* with seoul-seocho:1, and completed
C13_Witness ==
    /\ library_ids = {<<"z", ":", "1">>, format_id(PREFIX, <<"1">>)}
    /\ searchState = "completed"
    /\ Len(sources) = 1
    /\ sources[1].name = PREFIX
    /\ sources[1].library_ids = {format_id(PREFIX, <<"1">>)}
    /\ out # <<>>

\* C17: the ids handed to a selected adapter are requested ids that carry
\* that adapter's namespace (the namespace, the separator, a local part); no
\* id is handed to two adapters, and every requested id that carries a
\* registered namespace is handed to exactly one adapter.
C17_IdsRoutedToOwner ==
    searchState # "idle" =>
        /\ \A i \in Sources :
              /\ sources[i].library_ids \subseteq library_ids
              /\ \A id \in sources[i].library_ids :
                    HasNamespace(id, sources[i].name)
        /\ \A i, j \in Sources :
              i # j => sources[i].library_ids \cap sources[j].library_ids = {}
        /\ \A id \in library_ids :
              (\E p \in Adapters : HasNamespace(id, services[p])) =>
                  Cardinality({i \in Sources : id \in sources[i].library_ids}) = 1

\* a request for seoul-seocho:b:1 and b:9: the id with a "b" inside its
\* local part went to seoul-seocho, and b:9 to b
C17_Witness ==
    /\ library_ids = {format_id(PREFIX, <<"b", ":", "1">>), <<"b", ":", "9">>}
    /\ Len(sources) = 2
    /\ sources[1].library_ids = {format_id(PREFIX, <<"b", ":", "1">>)}
    /\ sources[2].library_ids = {<<"b", ":", "9">>}
    /\ posted[1] # NoValue
    /\ posted[2] # NoValue

\* C18 as claimed: every adapter whose search is invoked is handed at least
\* one id.
C18_NoUnrestrictedSearch ==
    searchState # "idle" => \A i \in Sources : sources[i].library_ids # {}

\* C19: the entities of one producer are delivered in the order the producer
\* yielded them.
C19_ProducerOrderKept ==
    \A n, m \in 1..Len(out) :
        (n < m /\ out[n][1] = out[m][1]) => out[n][2] < out[m][2]

\* the first producer's two entities were delivered around the second
\* producer's entity
C19_Witness ==
    out = << <<1, 1>>, <<2, 1>>, <<1, 2>> >>

\* C14: the namespace derived from the id composed of a namespace without
\* separator and any local id (empty, or with separators in it) is that
\* namespace.
C14_NamespaceRoundTrip ==
    (call.fn = "service_ids" /\ call.state = "done"
        /\ SEP \notin Range(call.arg.namespace)) =>
            call.result = {call.arg.namespace}

\* the round trip of a local id that begins with a separator and of the empty
\* local id
C14_Witness ==
    /\ call.fn = "service_ids"
    /\ call.state = "done"
    /\ call.arg.namespace = <<"a">>
    /\ call.arg.local \in {<<SEP, "1">>, <<>>}
    /\ call.result = {<<"a">>}

\* number of variants a HoldingStatus has populated
Variants(status) ==
    Cardinality({v \in {"available", "on_loan", "unavailable"} :
                    status[v] # NoValue})

\* C15 as claimed: for every book record _parse_state yields a HoldingStatus,
\* with exactly one of available, on_loan, unavailable populated.
C15_ExactlyOneVariant ==
    (call.fn = "parse_state" /\ call.state = "done") =>
        /\ call.result # NoValue
        /\ Variants(call.result[1]) = 1

\* C16: the converted library has the adapter library's id and name, the one
\* fixed resolver identity, no coordinate when the adapter library has none,
\* and the adapter library's latitude and longitude when it has one.
C16_ConversionKeepsLibrary ==
    (call.fn = "convert_library" /\ call.state = "done") =>
        /\ call.result.id = call.arg.id
        /\ call.result.name = call.arg.name
        /\ call.result.resolver_id = "json-py"
        /\ call.arg.coordinate = NoValue => call.result.coordinate = NoValue
        /\ call.arg.coordinate # NoValue =>
              /\ Len(call.result.coordinate) = 1
              /\ call.result.coordinate[1].latitude = call.arg.coordinate[1].latitude
              /\ call.result.coordinate[1].longitude = call.arg.coordinate[1].longitude

\* a library of backend b without coordinate was converted
C16_Witness ==
    /\ call.fn = "convert_library"
    /\ call.state = "done"
    /\ call.arg.id = <<"b", ":", "1">>
    /\ call.arg.coordinate = NoValue
    /\ call.result.coordinate = NoValue
    /\ call.result.resolver_id = "json-py"

\* C20: when the producers are scheduled fairly and the caller keeps
\* consuming, a Search stream ends: it completes normally with every producer
\* run to its end, unless a producer has failed or the caller has cancelled.
C20_SearchTerminates ==
    (searchState \in {"waiting", "yielded"})
        ~> \/ /\ searchState = "completed"
              /\ \A i \in Sources : streamer[i] = "finished"
           \/ /\ searchState = "failed"
              /\ \E i \in Sources : streamer[i] = "error"
           \/ searchState = "cancelled"

\* a stream of two producers that completed after three entities
C20_Witness ==
    /\ searchState = "completed"
    /\ Len(sources) = 2
    /\ streamer = <<"finished", "finished">>
    /\ Len(out) = 3
    /\ produced = <<1, 2>>

====
